---- MODULE Spec2Model ----
(***************************************************************************)
(* Model of the Traefik access-log monitor: the tail reader                *)
(* (file_reader.rs), the record decoder (log_entry.rs), the statistics     *)
(* collector (statistics.rs) and the monitoring loop (main.rs).            *)
(*                                                                         *)
(* Text is modelled as sequences of one-character strings.  An Option is   *)
(* a sequence of length 0 (None) or 1 (Some).                              *)
(***************************************************************************)
EXTENDS Integers, Sequences, FiniteSets, TLC

VARIABLES
    file,            \* content of access.log, a sequence of bytes
    position,        \* LogTailer.position
    cursor,          \* read offset of LogTailer.reader
    existing,        \* history: content of the file when LogTailer::new ran
    position0,       \* history: position returned by LogTailer::new
    returned,        \* history: concatenation of all Ok results of read_new_lines
    lastPoll,        \* history: outcome of the most recent read_new_lines call
    idle,            \* history: runs of calls that found nothing new (SpecTail)
    stats,           \* StatsCollector.stats : ip -> IpStats
    total_requests,  \* StatsCollector.total_requests
    top_ips,         \* result of the most recent get_top_ips call
    top_n,           \* main: top_n
    chan,            \* mpsc channel from the input thread to main
    pc,              \* position of the main thread
    lines,           \* main: lines of the batch not yet processed
    screen,          \* what display_stats last printed, and from which call site
    typed,           \* history: console line last read and values sent on the channel
    ingested,        \* history: requests per (identifier, path) given to add_entry (SpecIngest)
    probe            \* the most recent call of a query or decoder, with its result

vars == <<file, position, cursor, existing, position0, returned, lastPoll, idle, stats,
          total_requests, top_ips, top_n, chan, pc, lines, screen, typed, ingested,
          probe>>

tailVars == <<file, position, cursor, existing, position0, returned, lastPoll, idle>>
statVars == <<stats, total_requests>>
loopVars == <<top_n, chan, pc, lines, screen>>
histVars == <<typed, ingested, probe>>

----------------------------------------------------------------------------
(* Bounds *)

MaxRequests == 4      \* add_entry calls in SpecStats
MaxBytes == 3         \* bytes appended to the file in SpecTail
MaxLines == 3         \* lines appended to the file in SpecLines
MaxAppend == 6        \* bytes appended to the file in SpecLoop
MaxTyped == 2         \* bytes appended to the file in Spec
MaxChan == 1          \* values in flight in the channel in Spec
MaxCut == 1           \* bytes a truncation leaves in the file (SpecTrunc)
MaxPathLen == 4       \* characters of a path given to truncate_path (SpecPath)
MaxBudget == 5        \* largest max_len given to truncate_path (SpecPath)
MaxIdle == 2          \* consecutive polls without growth that lastPoll counts

----------------------------------------------------------------------------
(* Generic helpers *)

None == <<>>
Some(x) == <<x>>
IsSome(o) == o /= <<>>
Unwrap(o) == o[1]

Min(a, b) == IF a <= b THEN a ELSE b

RECURSIVE SumOver(_, _)
SumOver(f, S) ==
    IF S = {} THEN 0
    ELSE LET x == CHOOSE y \in S : TRUE IN f[x] + SumOver(f, S \ {x})

Take(s, n) == SubSeq(s, 1, Min(n, Len(s)))

\* All orders in which the elements of a finite set can be enumerated
\* (the iteration order of a HashMap is unspecified).
Orders(S) ==
    {o \in [1..Cardinality(S) -> S] : \A x \in S : \E i \in DOMAIN o : o[i] = x}

\* slice::sort_by(|a, b| b.key.cmp(&a.key)): a stable sort, descending by key.
\* InsertDesc puts x, which came later in the input, behind every element
\* whose key is at least x.key.
RECURSIVE InsertDesc(_, _)
InsertDesc(s, x) ==
    IF s = <<>> THEN <<x>>
    ELSE IF x.key > Head(s).key THEN <<x>> \o s
    ELSE <<Head(s)>> \o InsertDesc(Tail(s), x)

RECURSIVE SortDesc(_)
SortDesc(s) ==
    IF s = <<>> THEN <<>>
    ELSE InsertDesc(SortDesc(SubSeq(s, 1, Len(s) - 1)), s[Len(s)])

----------------------------------------------------------------------------
(* log_entry.rs *)

\* str::rfind(':') : index of the last colon, 0 when there is none
RFindColon(s) ==
    LET C == {i \in 1..Len(s) : s[i] = ":"}
    IN IF C = {} THEN 0 ELSE CHOOSE i \in C : \A j \in C : j <= i

Entry(host, addr, path) ==
    [client_host |-> host, client_addr |-> addr, request_path |-> path]

\* get_ip cutting the address at its first colon (find instead of rfind)
get_ip_first_colon(e) ==
    IF IsSome(e.client_host) /\ Unwrap(e.client_host) /= <<>>
    THEN Some(Unwrap(e.client_host))
    ELSE IF IsSome(e.client_addr)
         THEN LET addr == Unwrap(e.client_addr)
                  C == {i \in 1..Len(addr) : addr[i] = ":"}
              IN IF C /= {}
                 THEN Some(SubSeq(addr, 1, (CHOOSE i \in C : \A j \in C : i <= j) - 1))
                 ELSE Some(addr)
         ELSE None

get_ip(e) ==
    IF IsSome(e.client_host) /\ Unwrap(e.client_host) /= <<>>
    THEN Some(Unwrap(e.client_host))
    ELSE IF IsSome(e.client_addr)
         THEN LET addr == Unwrap(e.client_addr)
                  colon_pos == RFindColon(addr)
              IN IF colon_pos > 0
                 THEN Some(SubSeq(addr, 1, colon_pos - 1))
                 ELSE Some(addr)
         ELSE None

get_path(e) ==
    IF IsSome(e.request_path) THEN Unwrap(e.request_path) ELSE "/"

\* Field values the model draws records from.
Hosts == {None, Some(<<>>), Some(<<"1">>), Some(<<"2">>)}
Addrs == {None, Some(<<"2", ":", "9">>), Some(<<"3">>)}
Paths == {None, Some("/a")}
Entries == {Entry(h, a, p) : h \in Hosts, a \in Addrs, p \in Paths}

----------------------------------------------------------------------------
(* statistics.rs *)

IpStats_new == [request_count |-> 0, paths |-> <<>>]

\* HashMap::entry(k).or_insert(v)
OrInsert(m, k, v) == IF k \in DOMAIN m THEN m ELSE m @@ (k :> v)

\* add_request counting a request only when its path is new to the entry
add_request_counts_new_paths(s, path) ==
    [request_count |-> IF path \in DOMAIN s.paths THEN s.request_count
                       ELSE s.request_count + 1,
     paths |-> LET p == OrInsert(s.paths, path, 0)
               IN [p EXCEPT ![path] = @ + 1]]

\* add_request with a new path entered at 1 and then incremented
add_request_starts_at_one(s, path) ==
    [request_count |-> s.request_count + 1,
     paths |-> LET p == OrInsert(s.paths, path, 1)
               IN [p EXCEPT ![path] = @ + 1]]

add_request(s, path) ==
    [request_count |-> s.request_count + 1,
     paths |-> LET p == OrInsert(s.paths, path, 0)
               IN [p EXCEPT ![path] = @ + 1]]

StatsCollector_new == [stats |-> <<>>, total_requests |-> 0]

\* add_entry with the total incremented before the record is looked at
add_entry_counts_every_record(st, total, e) ==
    LET ip == get_ip(e) IN
    IF ~IsSome(ip) THEN [stats |-> st, total_requests |-> total + 1]
    ELSE LET m == OrInsert(st, Unwrap(ip), IpStats_new)
         IN [stats |-> [m EXCEPT ![Unwrap(ip)] = add_request(@, get_path(e))],
             total_requests |-> total + 1]

\* add_entry with the total incremented only when the entry is created
add_entry_counts_new_ips(st, total, e) ==
    LET ip == get_ip(e) IN
    IF ~IsSome(ip) THEN [stats |-> st, total_requests |-> total]
    ELSE LET m == OrInsert(st, Unwrap(ip), IpStats_new)
         IN [stats |-> [m EXCEPT ![Unwrap(ip)] = add_request(@, get_path(e))],
             total_requests |-> IF Unwrap(ip) \in DOMAIN st THEN total ELSE total + 1]

\* add_entry filing a record without identifier under the empty identifier
add_entry_keys_missing_ip(st, total, e) ==
    LET ip == IF IsSome(get_ip(e)) THEN get_ip(e) ELSE Some(<<>>)
        m == OrInsert(st, Unwrap(ip), IpStats_new)
    IN [stats |-> [m EXCEPT ![Unwrap(ip)] = add_request(@, get_path(e))],
        total_requests |-> total + 1]

\* The collector after add_entry(e), as a record of its two fields.
add_entry(st, total, e) ==
    LET ip == get_ip(e) IN
    IF ~IsSome(ip) THEN [stats |-> st, total_requests |-> total]
    ELSE LET m == OrInsert(st, Unwrap(ip), IpStats_new)
         IN [stats |-> [m EXCEPT ![Unwrap(ip)] = add_request(@, get_path(e))],
             total_requests |-> total + 1]

\* percentage, kept exact as the fraction num/den
\* The share left as a fraction of one, not multiplied by 100.0
Percentage_fraction(count, total) ==
    IF total > 0 THEN [num |-> count, den |-> total]
    ELSE [num |-> 0, den |-> 1]

Percentage(count, total) ==
    IF total > 0 THEN [num |-> count * 100, den |-> total]
    ELSE [num |-> 0, den |-> 1]

\* top_paths without the sort
top_paths_unsorted(s, order, n) ==
    Take([i \in DOMAIN order |->
            [key |-> s.paths[order[i]], path |-> order[i], count |-> s.paths[order[i]]]],
         n)

\* top_paths(n) of one IpStats when its map is iterated in the order `order`
top_paths(s, order, n) ==
    Take(SortDesc([i \in DOMAIN order |->
            [key |-> s.paths[order[i]], path |-> order[i], count |-> s.paths[order[i]]]]),
         n)

\* get_top_ips without the sort
get_top_ips_unsorted(st, total, order, n) ==
    Take([i \in DOMAIN order |->
            [key |-> st[order[i]].request_count,
             ip |-> order[i], stats |-> st[order[i]],
             percentage |-> Percentage(st[order[i]].request_count, total)]], n)

\* get_top_ips(n) when the map is iterated in the order `order`
get_top_ips(st, total, order, n) ==
    LET ips == [i \in DOMAIN order |->
                  [key |-> st[order[i]].request_count,
                   ip |-> order[i], stats |-> st[order[i]],
                   percentage |-> Percentage(st[order[i]].request_count, total)]]
    IN Take(SortDesc(ips), n)

----------------------------------------------------------------------------
(* file_reader.rs *)

NL == "LF"                       \* the line separator byte
SP == "SP"                       \* a blank
WhiteSpace == {NL, SP}

\* str::trim
RECURSIVE TrimStart(_)
TrimStart(s) ==
    IF s /= <<>> /\ Head(s) \in WhiteSpace THEN TrimStart(Tail(s)) ELSE s

RECURSIVE TrimEnd(_)
TrimEnd(s) ==
    IF s /= <<>> /\ s[Len(s)] \in WhiteSpace
    THEN TrimEnd(SubSeq(s, 1, Len(s) - 1)) ELSE s

trim(s) == TrimEnd(TrimStart(s))

\* BufRead::read_line at offset pos: the bytes up to and including the next
\* separator, or up to the end of the file when there is none.
read_line(f, pos) ==
    LET N == {i \in (pos + 1)..Len(f) : f[i] = NL}
    IN IF N = {} THEN SubSeq(f, pos + 1, Len(f))
       ELSE SubSeq(f, pos + 1, CHOOSE i \in N : \A j \in N : i <= j)

\* LogTailer::new without the seek to the end
LogTailer_new_at_start(f) == [position |-> 0, cursor |-> 0]

\* LogTailer::new: seek(SeekFrom::End(0))
LogTailer_new(f) == [position |-> Len(f), cursor |-> Len(f)]

\* The read loop with position advanced by the length of the trimmed line
RECURSIVE Scan_advance_by_trimmed(_, _, _, _, _)
Scan_advance_by_trimmed(f, cur, pos, acc, k) ==
    IF k = 0 \/ cur >= Len(f)
    THEN [position |-> pos, cursor |-> cur, lines |-> acc]
    ELSE LET line == read_line(f, cur)
             trimmed == trim(line)
         IN Scan_advance_by_trimmed(f, cur + Len(line), pos + Len(trimmed),
                 IF trimmed /= <<>> THEN Append(acc, trimmed) ELSE acc,
                 k - 1)

\* The read loop with position advanced by one more than the bytes read
RECURSIVE Scan_counts_separator(_, _, _, _, _)
Scan_counts_separator(f, cur, pos, acc, k) ==
    IF k = 0 \/ cur >= Len(f)
    THEN [position |-> pos, cursor |-> cur, lines |-> acc]
    ELSE LET line == read_line(f, cur)
             trimmed == trim(line)
         IN Scan_counts_separator(f, cur + Len(line), pos + Len(line) + 1,
                 IF trimmed /= <<>> THEN Append(acc, trimmed) ELSE acc,
                 k - 1)

\* The read loop of read_new_lines, cut off after at most k read_line calls
\* that returned data.  The reader stands at offset cur; every read_line
\* moves it, and position is advanced by the same number of bytes.
RECURSIVE Scan(_, _, _, _, _)
Scan(f, cur, pos, acc, k) ==
    IF k = 0 \/ cur >= Len(f)                 \* bytes_read == 0: break
    THEN [position |-> pos, cursor |-> cur, lines |-> acc]
    ELSE LET line == read_line(f, cur)
             bytes_read == Len(line)
             trimmed == trim(line)
         IN Scan(f, cur + bytes_read, pos + bytes_read,
                 IF trimmed /= <<>> THEN Append(acc, trimmed) ELSE acc,
                 k - 1)

\* read_new_lines without the seek back to position after the size probe
read_new_lines_no_seek_back(f, pos) ==
    LET file_size == Len(f) IN
    IF file_size <= pos
    THEN [ok |-> TRUE, lines |-> <<>>, position |-> pos, cursor |-> pos]
    ELSE LET r == Scan(f, file_size, pos, <<>>, file_size)
         IN [ok |-> TRUE, lines |-> r.lines, position |-> r.position,
             cursor |-> r.cursor]

\* read_new_lines starting over from offset 0 when the file has shrunk
read_new_lines_restarts_on_shrink(f, pos) ==
    LET file_size == Len(f) IN
    IF file_size = pos
    THEN [ok |-> TRUE, lines |-> <<>>, position |-> pos, cursor |-> pos]
    ELSE LET from == IF file_size < pos THEN 0 ELSE pos
             r == Scan(f, from, from, <<>>, file_size)
         IN [ok |-> TRUE, lines |-> r.lines, position |-> r.position,
             cursor |-> r.cursor]

\* read_new_lines when no operation fails
read_new_lines(f, pos) ==
    LET file_size == Len(f) IN                \* seek(SeekFrom::End(0))
    IF file_size <= pos
    THEN [ok |-> TRUE, lines |-> <<>>, position |-> pos,
          cursor |-> pos]                     \* seek(SeekFrom::Start(position))
    ELSE LET r == Scan(f, pos, pos, <<>>, file_size)  \* seek to position, read
         IN [ok |-> TRUE, lines |-> r.lines, position |-> r.position,
             cursor |-> r.cursor]

\* read_new_lines when one of its operations fails (the ? operator returns
\* the error and drops the local vector `lines`): the first seek, the seek
\* back to position, or the read_line call made after j successful ones.
read_new_lines_err(f, pos, cur) ==
    LET file_size == Len(f)
        Failed(p, c) == [ok |-> FALSE, lines |-> <<>>, position |-> p, cursor |-> c]
    IN {Failed(pos, cur), Failed(pos, file_size)}
       \cup (IF file_size <= pos THEN {}
             ELSE {Failed(Scan(f, pos, pos, <<>>, j).position,
                          Scan(f, pos, pos, <<>>, j).cursor) : j \in 0..file_size})

\* The history record of a read_new_lines call made in the state
\* (f, pos, total) with outcome r.
\*   before  position before the call     size   file size at the call
\*   total   total_requests at the call
PollRecord(f, pos, total, r) ==
    [ok |-> r.ok, lines |-> r.lines, before |-> pos, size |-> Len(f),
     total |-> total]

\* The history of idle calls: Ok calls that found file_size <= position.
\*   seq     flips at every call          okSize  file size at the last Ok call
\*   count   idle calls in a row up to and including the last call
\*   before  count before the last call
\*   anchor  position left by the last call that was not idle
IdleRecord(h, f, pos, r) ==
    LET isIdle == r.ok /\ Len(f) <= pos IN
    [seq |-> 1 - h.seq,
     okSize |-> IF r.ok THEN Len(f) ELSE h.okSize,
     count |-> IF isIdle THEN Min(h.count + 1, MaxIdle) ELSE 0,
     before |-> h.count,
     anchor |-> IF isIdle THEN h.anchor ELSE r.position]

----------------------------------------------------------------------------
(* main.rs *)

DEFAULT_TOP_N == 10

\* serde_json::from_str::<TraefikLogEntry>.  Every content byte of the model
\* stands for one piece of text: "a", "b", "n" and "e" for a whole JSON
\* object, "x" for text that is not JSON.  A line holding anything but exactly
\* one object is rejected (trailing characters).  The result is an Option:
\* Some(entry) for Ok, None for Err.
from_json_line(line) ==
    IF line = <<"a">> THEN Some(Entry(Some(<<"1">>), None, Some("/a")))
    ELSE IF line = <<"b">> THEN Some(Entry(None, Some(<<"2", ":", "9">>), None))
    ELSE IF line = <<"n">> THEN Some(Entry(None, None, Some("/a")))
    ELSE IF line = <<"e">> THEN Some(Entry(Some(<<"0">>), None, Some("/e")))
    ELSE None

\* str::parse::<usize> of the trimmed input line: an optional "+" and then
\* decimal digits.  Some(value) for Ok, None for Err.
RECURSIVE DecimalValue(_)
DecimalValue(s) ==
    IF s = <<>> THEN 0
    ELSE 10 * DecimalValue(SubSeq(s, 1, Len(s) - 1))
         + (CHOOSE d \in 0..9 : ToString(d) = s[Len(s)])

Digits == {"0", "1", "2", "3", "4", "5", "6", "7", "8", "9"}

parse_usize(s) ==
    LET digits == IF s /= <<>> /\ Head(s) = "+" THEN Tail(s) ELSE s
    IN IF digits /= <<>> /\ \A i \in DOMAIN digits : digits[i] \in Digits
       THEN Some(DecimalValue(digits)) ELSE None

\* trim for console input, where the blank is " "
RECURSIVE TrimInput(_)
TrimInput(s) ==
    IF s /= <<>> /\ Head(s) = " " THEN TrimInput(Tail(s))
    ELSE IF s /= <<>> /\ s[Len(s)] = " " THEN TrimInput(SubSeq(s, 1, Len(s) - 1))
    ELSE s

\* The lines typed on the console in the model.
InputLines ==
    {<<" ", "1", " ">>, <<"1", "0", "0">>, <<"+", "1">>, <<"0">>,
     <<"1", "0", "1">>, <<"x">>, <<>>}

\* What display_stats(&stats, n) can print when called from `site`:
\* render_stats shows no rows while total_requests is 0, and otherwise the
\* rows of get_top_ips(n), whose order among equal counts depends on the
\* iteration order of the map.
display_stats(site, st, total, n) ==
    {[site |-> site, top_n |-> n, total |-> total,
      unique |-> Cardinality(DOMAIN st),
      rows |-> IF total = 0 THEN <<>>
               ELSE LET top == get_top_ips(st, total, o, n)
                    IN [i \in DOMAIN top |->
                          [ip |-> top[i].ip, count |-> top[i].stats.request_count]]]
     : o \in Orders(DOMAIN st)}

----------------------------------------------------------------------------
(* State after construction: main.rs lines 28-70 *)

\* What access.log may hold when the monitor starts.  The byte "e" occurs
\* only here: nothing written later contains it.
----------------------------------------------------------------------------
(* display.rs: truncate_path *)

\* A path is a sequence of characters; "E" stands for a character that takes
\* two bytes in UTF-8, every other character takes one.
Width(c) == IF c = "E" THEN 2 ELSE 1

\* str::len: the length in bytes
ByteLen(path) == SumOver([i \in DOMAIN path |-> Width(path[i])], DOMAIN path)

\* truncate_path(path, max_len).  The call panics when max_len - 3 overflows
\* usize (a wrapped index is out of range for the slice as well) and when
\* byte max_len - 3 is not a character boundary of path.
truncate_path(path, max_len) ==
    LET Panic == [panic |-> TRUE, out |-> <<>>]
        Cuts == {j \in 0..Len(path) : ByteLen(SubSeq(path, 1, j)) = max_len - 3}
    IN IF ByteLen(path) <= max_len THEN [panic |-> FALSE, out |-> path]
       ELSE IF max_len < 3 THEN Panic
       ELSE IF Cuts = {} THEN Panic
       ELSE [panic |-> FALSE,
             out |-> SubSeq(path, 1, CHOOSE j \in Cuts : TRUE) \o <<".", ".", ".">>]

RECURSIVE SeqsUpTo(_, _)
SeqsUpTo(S, n) ==
    IF n = 0 THEN {<<>>}
    ELSE SeqsUpTo(S, n - 1) \cup {Append(q, x) : q \in SeqsUpTo(S, n - 1), x \in S}

TruncPaths == SeqsUpTo({"/", "E"}, MaxPathLen)

ExistingFiles == {<<>>, <<"e", NL>>, <<"e", NL, "e">>}

Init ==
    /\ existing \in ExistingFiles
    /\ file = existing
    /\ position = LogTailer_new(existing).position
    /\ cursor = LogTailer_new(existing).cursor
    /\ position0 = LogTailer_new(existing).position
    /\ returned = <<>>
    /\ lastPoll = [ok |-> TRUE, lines |-> <<>>,
                   before |-> LogTailer_new(existing).position,
                   size |-> Len(existing), total |-> 0]
    /\ idle = [seq |-> 0, okSize |-> Len(existing), count |-> 0, before |-> 0,
               anchor |-> LogTailer_new(existing).position]
    /\ stats = StatsCollector_new.stats
    /\ total_requests = StatsCollector_new.total_requests
    /\ top_ips = [n |-> 0, result |-> <<>>]
    /\ top_n = DEFAULT_TOP_N
    /\ chan = <<>>
    /\ pc = "drain"
    /\ lines = <<>>
    /\ screen \in display_stats("initial", StatsCollector_new.stats,
                                StatsCollector_new.total_requests, DEFAULT_TOP_N)
    /\ typed = [line |-> <<>>, sent |-> DEFAULT_TOP_N, atSleep |-> DEFAULT_TOP_N,
                atPoll |-> DEFAULT_TOP_N]
    /\ ingested = <<>>
    /\ probe = [op |-> "none"]

----------------------------------------------------------------------------
(* The statistics collector on its own *)

AddEntry(e) ==
    /\ total_requests < MaxRequests
    /\ stats' = add_entry(stats, total_requests, e).stats
    /\ total_requests' = add_entry(stats, total_requests, e).total_requests
    /\ UNCHANGED <<tailVars, loopVars, top_ips, histVars>>

GetTopIps(n) ==
    /\ \E order \in Orders(DOMAIN stats) :
          top_ips' = [n |-> n, result |-> get_top_ips(stats, total_requests, order, n)]
    /\ UNCHANGED <<tailVars, loopVars, statVars, histVars>>

NextStats ==
    \/ \E e \in Entries : AddEntry(e)
    \/ \E n \in 0..3 : GetTopIps(n)

SpecStats == Init /\ [][NextStats]_vars

----------------------------------------------------------------------------
(* The collector fed record by record, with its per-identifier query *)

IngestHosts == {None, Some(<<>>), Some(<<"1">>)}
IngestAddrs == {None, Some(<<"2", ":", "9">>)}
IngestPaths == {None, Some("/a"), Some("/b")}
IngestEntries == {Entry(h, a, p) : h \in IngestHosts, a \in IngestAddrs, p \in IngestPaths}

\* The history of requests per (identifier, path) after one more record.
Count(log, e) ==
    IF IsSome(get_ip(e))
    THEN LET k == <<Unwrap(get_ip(e)), get_path(e)>>
             l == OrInsert(log, k, 0)
         IN [l EXCEPT ![k] = @ + 1]
    ELSE log

\* collector.add_entry(&entry), with the record kept for reference
IngestRecord(e) ==
    /\ total_requests < MaxRequests
    /\ stats' = add_entry(stats, total_requests, e).stats
    /\ total_requests' = add_entry(stats, total_requests, e).total_requests
    /\ ingested' = Count(ingested, e)
    /\ probe' = [op |-> "add_entry", entry |-> e]
    /\ UNCHANGED <<tailVars, loopVars, top_ips, typed>>

\* stats.top_paths(n) on the entry of ip
TopPaths(ip, n) ==
    /\ ip \in DOMAIN stats
    /\ \E order \in Orders(DOMAIN stats[ip].paths) :
          probe' = [op |-> "top_paths", ip |-> ip, n |-> n,
                    result |-> top_paths(stats[ip], order, n)]
    /\ UNCHANGED <<tailVars, statVars, loopVars, top_ips, typed, ingested>>

NextIngest ==
    \/ \E e \in IngestEntries : IngestRecord(e)
    \/ \E ip \in DOMAIN stats : \E n \in 0..3 : TopPaths(ip, n)

SpecIngest == Init /\ [][NextIngest]_vars

----------------------------------------------------------------------------
(* The path column of the display on its own *)

\* Self::truncate_path(&path, max_len)
TruncatePath(path, max_len) ==
    /\ probe' = [op |-> "truncate_path", path |-> path, max_len |-> max_len,
                 panic |-> truncate_path(path, max_len).panic,
                 out |-> truncate_path(path, max_len).out]
    /\ UNCHANGED <<tailVars, statVars, loopVars, top_ips, typed, ingested>>

NextPath == \E path \in TruncPaths : \E max_len \in 0..MaxBudget : TruncatePath(path, max_len)

SpecPath == Init /\ [][NextPath]_vars

----------------------------------------------------------------------------
(* The record decoder on its own *)

DecodeHosts == {None, Some(<<>>), Some(<<"1">>), Some(<<"1", ":", "8">>)}
DecodeAddrs == {None, Some(<<>>), Some(<<"3">>), Some(<<"2", ":", "9">>),
                Some(<<"4", ":", "5", ":", "9">>), Some(<<":", "9">>),
                Some(<<"3", ":">>), Some(<<":">>)}
DecodePaths == {None, Some("/a"), Some("/")}
DecodeEntries == {Entry(h, a, p) : h \in DecodeHosts, a \in DecodeAddrs, p \in DecodePaths}

\* entry.get_ip() and entry.get_path() on one decoded record
Decode(e) ==
    /\ probe' = [op |-> "decode", entry |-> e, ip |-> get_ip(e), path |-> get_path(e)]
    /\ UNCHANGED <<tailVars, statVars, loopVars, top_ips, typed, ingested>>

NextDecode == \E e \in DecodeEntries : Decode(e)

SpecDecode == Init /\ [][NextDecode]_vars

----------------------------------------------------------------------------
(* The tail reader on its own, against a file that only grows *)

TailBytes == {NL, SP, "a"}
LineBodies == {<<>>, <<SP>>, <<"a">>, <<"b">>, <<SP, "a">>, <<"a", SP, "b", SP>>}

\* The effect of one read_new_lines call with outcome r on the tailer.
\* (The idle history is kept by the tail reader's own specification only.)
ReadNewLines(r) ==
    /\ position' = r.position
    /\ cursor' = r.cursor
    /\ returned' = IF r.ok THEN returned \o r.lines ELSE returned
    /\ lastPoll' = PollRecord(file, position, total_requests, r)
    /\ UNCHANGED <<file, existing, position0>>

AppendByte(b) ==
    /\ Len(file) - Len(existing) < MaxBytes
    /\ file' = Append(file, b)
    /\ UNCHANGED <<position, cursor, existing, position0, returned, lastPoll,
                   idle, statVars, loopVars, top_ips, histVars>>

NumLines(f) == Cardinality({i \in DOMAIN f : f[i] = NL})

AppendLine(body) ==
    /\ NumLines(file) - NumLines(existing) < MaxLines
    /\ file' = file \o body \o <<NL>>
    /\ UNCHANGED <<position, cursor, existing, position0, returned, lastPoll,
                   idle, statVars, loopVars, top_ips, histVars>>

TailPoll ==
    /\ ReadNewLines(read_new_lines(file, position))
    /\ idle' = IdleRecord(idle, file, position, read_new_lines(file, position))
    /\ UNCHANGED <<statVars, loopVars, top_ips, histVars>>

TailPollErr ==
    /\ \E r \in read_new_lines_err(file, position, cursor) :
          /\ ReadNewLines(r)
          /\ idle' = IdleRecord(idle, file, position, r)
    /\ UNCHANGED <<statVars, loopVars, top_ips, histVars>>

NextTail ==
    \/ \E b \in TailBytes : AppendByte(b)
    \/ TailPoll
    \/ TailPollErr

SpecTail == Init /\ [][NextTail]_vars

NextLines ==
    \/ \E body \in LineBodies : AppendLine(body)
    \/ TailPoll

SpecLines == Init /\ [][NextLines]_vars

\* Whole lines are appended and a poll may fail at any of its operations.
RetryBodies == {<<"a">>, <<"b">>}

NextRetry ==
    \/ \E body \in RetryBodies : AppendLine(body)
    \/ TailPoll
    \/ TailPollErr

SpecRetry == Init /\ [][NextRetry]_vars

----------------------------------------------------------------------------
(* The monitor: writer, input thread and main loop *)

\* What the proxy appends in one write: whole lines, or pieces of one.
Chunks == {<<"a", NL>>, <<"n", NL>>, <<"x", NL>>, <<"a">>}

Write(chunk, max) ==
    /\ Len(file) - Len(existing) + Len(chunk) <= max
    /\ file' = file \o chunk
    /\ UNCHANGED <<position, cursor, existing, position0, returned, lastPoll,
                   idle, statVars, loopVars, top_ips, histVars>>

\* The input thread sending every number up to 100, zero included
StdinLine_accepts_zero(input) ==
    LET parsed == parse_usize(TrimInput(input)) IN
    /\ IF IsSome(parsed) /\ Unwrap(parsed) <= 100
       THEN /\ Len(chan) < MaxChan
            /\ chan' = Append(chan, Unwrap(parsed))
            /\ typed' = [typed EXCEPT !.line = input, !.sent = Unwrap(parsed)]
       ELSE /\ chan' = chan
            /\ typed' = [typed EXCEPT !.line = input]
    /\ UNCHANGED <<tailVars, statVars, top_ips, ingested, probe, top_n, pc, lines,
                   screen>>

\* One line of console input, read by the input thread.
StdinLine(input) ==
    LET parsed == parse_usize(TrimInput(input)) IN
    /\ IF IsSome(parsed) /\ Unwrap(parsed) > 0 /\ Unwrap(parsed) <= 100
       THEN /\ Len(chan) < MaxChan
            /\ chan' = Append(chan, Unwrap(parsed))
            /\ typed' = [typed EXCEPT !.line = input, !.sent = Unwrap(parsed)]
       ELSE /\ chan' = chan
            /\ typed' = [typed EXCEPT !.line = input]
    /\ UNCHANGED <<tailVars, statVars, top_ips, ingested, probe, top_n, pc, lines,
                   screen>>

\* The refresh drawn before top_n is assigned
Recv_displays_stale ==
    /\ pc = "drain"
    /\ chan /= <<>>
    /\ top_n' = Head(chan)
    /\ chan' = Tail(chan)
    /\ screen' \in display_stats("input", stats, total_requests, top_n)
    /\ UNCHANGED <<tailVars, statVars, top_ips, histVars, pc, lines>>

\* while let Ok(new_top_n) = rx.try_recv()
Recv ==
    /\ pc = "drain"
    /\ chan /= <<>>
    /\ top_n' = Head(chan)
    /\ chan' = Tail(chan)
    /\ screen' \in display_stats("input", stats, total_requests, Head(chan))
    /\ UNCHANGED <<tailVars, statVars, top_ips, histVars, pc, lines>>

\* The main thread going to sleep without looking at the channel
Sleep_without_draining ==
    /\ pc = "drain"
    /\ pc' = "poll"
    /\ typed' = [typed EXCEPT !.atSleep = typed.sent]
    /\ UNCHANGED <<tailVars, statVars, top_ips, ingested, probe, top_n, chan, lines,
                   screen>>

\* try_recv finds the channel empty; thread::sleep
Sleep ==
    /\ pc = "drain"
    /\ chan = <<>>
    /\ pc' = "poll"
    /\ typed' = [typed EXCEPT !.atSleep = typed.sent]
    /\ UNCHANGED <<tailVars, statVars, top_ips, ingested, probe, top_n, chan, lines,
                   screen>>

\* The empty-batch refresh drawn with DEFAULT_TOP_N instead of top_n
PollOk_displays_default ==
    LET r == read_new_lines(file, position) IN
    /\ pc = "poll"
    /\ ReadNewLines(r)
    /\ idle' = idle
    /\ IF r.lines = <<>>
       THEN /\ screen' \in display_stats("empty", stats, total_requests, DEFAULT_TOP_N)
            /\ pc' = "drain"
            /\ lines' = lines
       ELSE /\ lines' = r.lines
            /\ pc' = "process"
            /\ screen' = screen
    /\ typed' = [typed EXCEPT !.atPoll = typed.sent]
    /\ UNCHANGED <<statVars, top_ips, ingested, probe, top_n, chan>>

\* Ok(lines): an empty batch refreshes the display at once, any other batch
\* is handed to the for loop.
PollOk ==
    LET r == read_new_lines(file, position) IN
    /\ pc = "poll"
    /\ ReadNewLines(r)
    /\ idle' = idle
    /\ IF r.lines = <<>>
       THEN /\ screen' \in display_stats("empty", stats, total_requests, top_n)
            /\ pc' = "drain"
            /\ lines' = lines
       ELSE /\ lines' = r.lines
            /\ pc' = "process"
            /\ screen' = screen
    /\ typed' = [typed EXCEPT !.atPoll = typed.sent]
    /\ UNCHANGED <<statVars, top_ips, ingested, probe, top_n, chan>>

\* The Err arm written with the ? operator: main returns the error
PollErr_propagates ==
    /\ pc = "poll"
    /\ \E r \in read_new_lines_err(file, position, cursor) : ReadNewLines(r)
    /\ idle' = idle
    /\ pc' = "exit"
    /\ typed' = [typed EXCEPT !.atPoll = typed.sent]
    /\ UNCHANGED <<statVars, top_ips, ingested, probe, top_n, chan, lines, screen>>

\* Err(e)
PollErr ==
    /\ pc = "poll"
    /\ \E r \in read_new_lines_err(file, position, cursor) : ReadNewLines(r)
    /\ idle' = idle
    /\ screen' \in display_stats("error", stats, total_requests, top_n)
    /\ pc' = "drain"
    /\ typed' = [typed EXCEPT !.atPoll = typed.sent]
    /\ UNCHANGED <<statVars, top_ips, ingested, probe, top_n, chan, lines>>

\* The for loop leaving at the first line that does not parse
process_line_breaks_on_error(st, total, batch) ==
    LET parsed == from_json_line(Head(batch)) IN
    IF IsSome(parsed)
    THEN [stats |-> add_entry(st, total, Unwrap(parsed)).stats,
          total_requests |-> add_entry(st, total, Unwrap(parsed)).total_requests,
          rest |-> Tail(batch)]
    ELSE [stats |-> st, total_requests |-> total, rest |-> <<>>]

\* One iteration of `for line in lines` on the batch that is left: the
\* collector afterwards and the lines still to come.
process_line(st, total, batch) ==
    LET parsed == from_json_line(Head(batch)) IN
    IF IsSome(parsed)
    THEN [stats |-> add_entry(st, total, Unwrap(parsed)).stats,
          total_requests |-> add_entry(st, total, Unwrap(parsed)).total_requests,
          rest |-> Tail(batch)]
    ELSE [stats |-> st, total_requests |-> total, rest |-> Tail(batch)]

\* One iteration of the for loop; after the last one, the display refresh.
ProcessLine ==
    LET after == process_line(stats, total_requests, lines) IN
    /\ pc = "process"
    /\ stats' = after.stats
    /\ total_requests' = after.total_requests
    /\ lines' = after.rest
    /\ IF after.rest = <<>>
       THEN /\ screen' \in display_stats("batch", after.stats,
                                         after.total_requests, top_n)
            /\ pc' = "drain"
       ELSE /\ screen' = screen
            /\ pc' = "process"
    /\ UNCHANGED <<tailVars, top_ips, histVars, top_n, chan>>

\* The pipeline while nothing is typed: the writer and the main loop.
NextLoop ==
    \/ \E chunk \in Chunks : Write(chunk, MaxAppend)
    \/ Sleep
    \/ PollOk
    \/ PollErr
    \/ ProcessLine

SpecLoop == Init /\ [][NextLoop]_vars

\* The whole monitor, with log lines that parse and lines that do not.
Next ==
    \/ \E chunk \in {<<"a", NL>>, <<"x", NL>>} : Write(chunk, MaxTyped)
    \/ \E input \in InputLines : StdinLine(input)
    \/ Recv
    \/ Sleep
    \/ PollOk
    \/ PollErr
    \/ ProcessLine

Spec == Init /\ [][Next]_vars

\* The monitor with one kind of log line and two kinds of console line.
FairInputs == {<<"1", "0", "0">>, <<"x">>}

NextFair ==
    \/ Write(<<"a", NL>>, MaxTyped)
    \/ \E input \in FairInputs : StdinLine(input)
    \/ Recv
    \/ Sleep
    \/ PollOk
    \/ PollErr
    \/ ProcessLine

\* The main thread keeps running: every step of its loop that can be taken
\* is taken in the end.  Nothing is assumed of the writer or the console.
FairSpec ==
    /\ Init /\ [][NextFair]_vars
    /\ WF_vars(Recv)
    /\ WF_vars(Sleep)
    /\ WF_vars(PollOk \/ PollErr)
    /\ WF_vars(ProcessLine)

----------------------------------------------------------------------------
(* The tail reader against a file that is also cut short *)

\* The file is cut to its first n bytes (rotation, truncation by hand).
Truncate(n) ==
    /\ n < Len(file)
    /\ file' = SubSeq(file, 1, n)
    /\ UNCHANGED <<position, cursor, existing, position0, returned, lastPoll,
                   idle, statVars, loopVars, top_ips, histVars>>

NextTrunc ==
    \/ \E chunk \in {<<"a", NL>>} : Write(chunk, MaxBytes)
    \/ \E n \in 0..MaxCut : Truncate(n)
    \/ TailPoll
    \/ TailPollErr

SpecTrunc == Init /\ [][NextTrunc]_vars

----------------------------------------------------------------------------
(* Properties of the statistics collector *)

RequestCounts(st) == [ip \in DOMAIN st |-> st[ip].request_count]

\* C1: in every state reached by add_entry calls, with or without a client
\* identifier in the record, total_requests is the sum of request_count
\* over all entries of the map.
C1_TotalIsSum ==
    total_requests = SumOver(RequestCounts(stats), DOMAIN stats)

C1_Witness ==
    /\ total_requests = 3
    /\ Cardinality(DOMAIN stats) = 2

\* A get_top_ips answer t is right for the map st: min(n, identifiers)
\* entries, each a distinct identifier with its own statistics, ordered by
\* non-increasing request_count, and nothing left out that has a larger
\* request_count than something returned.
TopIpsRight(t, st) ==
    LET r == t.result
        ReturnedIps == {r[i].ip : i \in DOMAIN r}
    IN /\ Len(r) = Min(t.n, Cardinality(DOMAIN st))
       /\ \A i \in DOMAIN r : r[i].ip \in DOMAIN st /\ r[i].stats = st[r[i].ip]
       /\ \A i, j \in DOMAIN r : i /= j => r[i].ip /= r[j].ip
       /\ \A i, j \in DOMAIN r :
             i < j => r[i].stats.request_count >= r[j].stats.request_count
       /\ \A ip \in DOMAIN st \ ReturnedIps : \A i \in DOMAIN r :
             st[ip].request_count <= r[i].stats.request_count

\* C10: every get_top_ips(n) call returns min(n, identifiers) entries ordered
\* by non-increasing request_count, omits no identifier with a larger count
\* than a returned one, and leaves the collector as it was.
C10_TopIps ==
    [][top_ips' /= top_ips =>
          /\ TopIpsRight(top_ips', stats)
          /\ stats' = stats
          /\ total_requests' = total_requests]_vars

C10_Witness ==
    /\ top_ips.n = 2
    /\ Cardinality(DOMAIN stats) = 3
    /\ TopIpsRight(top_ips, stats)
    /\ top_ips.result[1].stats.request_count > top_ips.result[2].stats.request_count

\* C11: every entry get_top_ips returns carries the percentage
\* 100 * request_count / total_requests; when every identifier is returned
\* the percentages add up to 100; with total_requests = 0 the result is empty.
\* (Percentages are compared as exact fractions num / den.)
C11_Percentages ==
    [][top_ips' /= top_ips =>
          LET r == top_ips'.result
              share == [i \in DOMAIN r |->
                          (r[i].percentage.num * total_requests) \div r[i].percentage.den]
          IN /\ \A i \in DOMAIN r :
                   /\ r[i].percentage.den > 0
                   /\ r[i].percentage.num * total_requests
                         = 100 * r[i].stats.request_count * r[i].percentage.den
             /\ total_requests = 0 => r = <<>>
             /\ (total_requests > 0 /\ Len(r) = Cardinality(DOMAIN stats))
                   => SumOver(share, DOMAIN r) = 100 * total_requests]_vars

\* 3 requests of 4 and 1 of 4 are reported as 75 and 25, in that order.
C11_Witness ==
    /\ total_requests = 4
    /\ Len(top_ips.result) = 2
    /\ top_ips.result[1].stats.request_count = 3
    /\ top_ips.result[1].percentage = [num |-> 300, den |-> 4]
    /\ top_ips.result[2].stats.request_count = 1
    /\ top_ips.result[2].percentage = [num |-> 100, den |-> 4]

\* A step that gives a record to add_entry.
IngestStep == probe'.op = "add_entry" /\ (probe' /= probe \/ stats' /= stats)

----------------------------------------------------------------------------
(* Properties of the record decoder *)

HostGiven(e) == Len(e.client_host) = 1 /\ Len(e.client_host[1]) > 0
AddrGiven(e) == Len(e.client_addr) = 1

\* a with everything from its last colon onward removed, or a when it has none
BeforeLastColon(a) ==
    IF \E k \in DOMAIN a : a[k] = ":"
    THEN CHOOSE pre \in {SubSeq(a, 1, k - 1) : k \in DOMAIN a} :
            /\ a[Len(pre) + 1] = ":"
            /\ \A j \in (Len(pre) + 2)..Len(a) : a[j] /= ":"
    ELSE a

\* C12: get_ip returns the host when it is present and non-empty; otherwise,
\* when the address is present, the address up to its last colon (the whole
\* address when it has no colon); otherwise None.
C12_GetIp ==
    probe.op = "decode" =>
       LET e == probe.entry IN
       /\ HostGiven(e) => probe.ip = <<e.client_host[1]>>
       /\ (~HostGiven(e) /\ AddrGiven(e)) => probe.ip = <<BeforeLastColon(e.client_addr[1])>>
       /\ (~HostGiven(e) /\ ~AddrGiven(e)) => probe.ip = <<>>

\* An empty host with an address that holds two colons falls back to the
\* address cut at the last colon.
C12_Witness ==
    /\ probe.op = "decode"
    /\ probe.entry.client_host = <<(<<>>)>>
    /\ probe.entry.client_addr = << <<"4", ":", "5", ":", "9">> >>
    /\ probe.ip = << <<"4", ":", "5">> >>

----------------------------------------------------------------------------
(* Properties of the tail reader *)

Range(s) == {s[i] : i \in DOMAIN s}

\* The bytes written to the file after construction, up to offset n.
AppendedUpTo(n) == SubSeq(file, Len(existing) + 1, n)

\* s cut at every separator; bytes after the last separator form a last piece.
RECURSIVE Pieces(_)
Pieces(s) ==
    IF s = <<>> THEN <<>>
    ELSE IF NL \notin Range(s) THEN <<s>>
    ELSE LET k == CHOOSE i \in DOMAIN s :
                     s[i] = NL /\ \A j \in 1..(i - 1) : s[j] /= NL
         IN <<SubSeq(s, 1, k - 1)>> \o Pieces(SubSeq(s, k + 1, Len(s)))

\* A piece without the white space around it.
Stripped(l) ==
    LET B == {i \in DOMAIN l : l[i] \notin WhiteSpace}
    IN IF B = {} THEN <<>>
       ELSE SubSeq(l, CHOOSE i \in B : \A j \in B : i <= j,
                      CHOOSE i \in B : \A j \in B : i >= j)

NotEmpty(l) == l /= <<>>

\* The non-empty stripped lines of the bytes s, in file order.
ExpectedLines(s) ==
    LET p == Pieces(s)
    IN SelectSeq([i \in DOMAIN p |-> Stripped(p[i])], NotEmpty)

\* C2: while whole lines are appended and every poll succeeds, the polls so
\* far have returned, in file order and each exactly once, the stripped form
\* of every non-blank line that had been appended when the last poll ran.
C2_EveryLineOnce ==
    returned = ExpectedLines(AppendedUpTo(lastPoll.size))

C2_Witness ==
    /\ NumLines(file) - NumLines(existing) = 3
    /\ lastPoll.size = Len(file)
    /\ Len(returned) = 2
    /\ Len(lastPoll.lines) = 1
    /\ returned[1] /= returned[2]

\* C3: a successful poll that advanced position left it just behind a line
\* separator: bytes not yet terminated are neither consumed nor returned.
C3_PartialLineDeferred ==
    (lastPoll.ok /\ position > lastPoll.before) => file[position] = NL

PollStep == idle'.seq /= idle.seq

C7_PositionMonotone ==
    [][/\ position' >= position
       /\ (PollStep /\ lastPoll'.ok) => position' <= Len(file')]_vars

C7_Witness ==
    /\ lastPoll.ok
    /\ position > lastPoll.before
    /\ lastPoll.before > position0
    /\ position <= Len(file)

----------------------------------------------------------------------------
(* Properties of the monitoring loop *)

Parses(line) == IsSome(from_json_line(line))
HasIdentifier(line) == Parses(line) /\ IsSome(get_ip(Unwrap(from_json_line(line))))
IdentifierOf(line) == Unwrap(get_ip(Unwrap(from_json_line(line))))

\* The returned lines the for loop has gone through so far.
Ingested == SubSeq(returned, 1, Len(returned) - Len(lines))

\* The collector counts exactly the ingested lines that carry an identifier.
CountsMatchIngested ==
    /\ total_requests =
          Cardinality({i \in DOMAIN Ingested : HasIdentifier(Ingested[i])})
    /\ \A ip \in DOMAIN stats :
          stats[ip].request_count =
             Cardinality({i \in DOMAIN Ingested :
                             HasIdentifier(Ingested[i]) /\ IdentifierOf(Ingested[i]) = ip})
    /\ \A i \in DOMAIN Ingested :
          HasIdentifier(Ingested[i]) => IdentifierOf(Ingested[i]) \in DOMAIN stats

\* C5: what the file held at construction is never returned and never
\* counted: the first position is the size the file had then, a poll without
\* growth since returns nothing, and no returned line or identifier comes
\* from those bytes.
C5_ExistingIgnored ==
    /\ position0 = Len(existing)
    /\ (lastPoll.ok /\ lastPoll.size = Len(existing)) => lastPoll.lines = <<>>
    /\ \A i \in DOMAIN returned : "e" \notin Range(returned[i])
    /\ <<"0">> \notin DOMAIN stats
    /\ SumOver([i \in DOMAIN returned |-> Len(returned[i])], DOMAIN returned)
          <= Len(file) - Len(existing)

C5_Witness ==
    /\ Len(existing) > 0
    /\ pc = "drain"
    /\ Len(returned) >= 2
    /\ total_requests >= 2

\* C6: once the loop has ingested a batch of k lines that all parse to
\* records with an identifier, total_requests is k more than when the poll
\* was made.
C6_BatchAddsK ==
    (pc /= "process" /\ lastPoll.ok
        /\ \A i \in DOMAIN lastPoll.lines : HasIdentifier(lastPoll.lines[i]))
    => total_requests = lastPoll.total + Len(lastPoll.lines)

C6_Witness ==
    /\ pc = "drain"
    /\ lastPoll.ok
    /\ Len(lastPoll.lines) = 2
    /\ \A i \in DOMAIN lastPoll.lines : HasIdentifier(lastPoll.lines[i])
    /\ lastPoll.total = 1
    /\ total_requests = 3

\* C8: the loop iteration on a line that does not parse changes nothing in
\* the collector and goes on with the rest of the batch, and every line that
\* does parse, before or after it, in this or a later batch, is counted.
C8_MalformedSkipped ==
    /\ [][(pc = "process" /\ lines' /= lines /\ ~Parses(Head(lines))) =>
             /\ stats' = stats
             /\ total_requests' = total_requests
             /\ lines' = Tail(lines)
             /\ pc' = (IF Tail(lines) = <<>> THEN "drain" ELSE "process")]_vars
    /\ [](pc \in {"drain", "poll", "process"} /\ CountsMatchIngested)

C8_Witness ==
    /\ pc = "drain"
    /\ Len(lastPoll.lines) = 3
    /\ HasIdentifier(lastPoll.lines[1])
    /\ ~Parses(lastPoll.lines[2])
    /\ HasIdentifier(lastPoll.lines[3])
    /\ total_requests = lastPoll.total + 2

\* C9: a poll that fails leaves the collector as it was, refreshes the
\* display from the unchanged collector and takes the loop back to its head;
\* the collector keeps counting exactly the ingested records, and the loop
\* never ends.
C9_ReadErrorIsolated ==
    /\ [][(pc = "poll" /\ pc' /= "poll" /\ ~lastPoll'.ok) =>
             /\ stats' = stats
             /\ total_requests' = total_requests
             /\ screen'.site = "error"
             /\ screen'.total = total_requests
             /\ screen'.top_n = top_n
             /\ lines' = <<>>
             /\ pc' = "drain"]_vars
    /\ [](CountsMatchIngested /\ pc /= "exit")

C9_Witness ==
    /\ ~lastPoll.ok
    /\ pc = "poll"
    /\ screen.site = "error"
    /\ total_requests >= 1
    /\ lastPoll.size > lastPoll.before

----------------------------------------------------------------------------
(* Properties of the console input *)

\* The decimal numeral of v, for v in 1..100.
Numeral(v) ==
    LET D == <<"0", "1", "2", "3", "4", "5", "6", "7", "8", "9">>
    IN IF v < 10 THEN <<D[v + 1]>>
       ELSE IF v < 100 THEN <<D[(v \div 10) + 1], D[(v % 10) + 1]>>
       ELSE <<"1", "0", "0">>

\* The line without the blanks around it.
Inner(l) ==
    LET B == {i \in DOMAIN l : l[i] /= " "}
    IN IF B = {} THEN <<>>
       ELSE SubSeq(l, CHOOSE i \in B : \A j \in B : i <= j,
                      CHOOSE i \in B : \A j \in B : i >= j)

\* The line reads as the integer v: an optional sign, zeros, the numeral.
ReadsAs(l, v) ==
    \E sign \in {<<>>, <<"+">>} : \E z \in 0..Len(l) :
        Inner(l) = sign \o [i \in 1..z |-> "0"] \o Numeral(v)

ValidInput(l) == \E v \in 1..100 : ReadsAs(l, v)

\* C13: top_n is always in 1..100; a value enters the channel only when the
\* line just read is an integer in 1..100, and it is that integer; any other
\* line leaves top_n and the rest of the program state as they were.
C13_TopNInRange ==
    /\ [](top_n \in 1..100 /\ \A i \in DOMAIN chan : chan[i] \in 1..100)
    /\ [][/\ Len(chan') > Len(chan) =>
                \E v \in 1..100 : ReadsAs(typed'.line, v) /\ chan' = Append(chan, v)
           /\ (typed'.line /= typed.line /\ ~ValidInput(typed'.line)) =>
                UNCHANGED <<tailVars, statVars, loopVars, top_ips>>]_vars

\* 100 was typed, sent and received, and the next line, 101, changed nothing.
C13_Witness ==
    /\ typed.line = <<"1", "0", "1">>
    /\ typed.sent = 100
    /\ top_n = 100
    /\ chan = <<>>

\* The display refresh that ends a tick: after an empty poll, after a failed
\* poll, or after the last line of the batch.
TickRefresh == pc \in {"poll", "process"} /\ pc' = "drain"

\* Messages are applied in send order: the newest value sent is the last one
\* in the channel, or is top_n when the channel is empty.
AppliedInSendOrder ==
    /\ chan /= <<>> => chan[Len(chan)] = typed.sent
    /\ chan = <<>> => top_n = typed.sent

Received == Len(chan') < Len(chan)

\* C15: in the step that receives an update the display is refreshed with the
\* value received, from the collector as it stands; the collector, the tailer
\* position and the batch in hand are untouched, and the main thread is still
\* ahead of its next poll.
C15_ImmediateRefresh ==
    [][Received =>
          /\ top_n' = Head(chan)
          /\ screen'.site = "input"
          /\ screen' \in display_stats("input", stats, total_requests, Head(chan))
          /\ screen'.top_n = Head(chan)
          /\ UNCHANGED <<stats, total_requests, position, cursor, returned, lastPoll>>
          /\ pc' = "drain"]_vars

\* An update to 100 was received after one request had been counted, and the
\* refresh shows that request under the new value.
C15_Witness ==
    /\ screen.site = "input"
    /\ screen.top_n = 100
    /\ top_n = 100
    /\ screen.total = 1
    /\ Len(screen.rows) = 1
    /\ position > position0

\* The values the console lines of the model stand for.
SentValues == {v \in 1..100 : \E l \in FairInputs : ReadsAs(l, v)}

----------------------------------------------------------------------------
(* Properties of ingestion, record by record *)

\* The record carries no client identifier: no usable host and no address.
NoIdentifier(e) == ~HostGiven(e) /\ ~AddrGiven(e)

IdentifierIn(e) ==
    IF HostGiven(e) THEN e.client_host[1] ELSE BeforeLastColon(e.client_addr[1])

PathIn(e) == IF Len(e.request_path) = 1 THEN e.request_path[1] ELSE "/"

\* C17: giving add_entry a record without identifier changes nothing:
\* total_requests, the set of identifiers and every entry stay as they were.
C17_NoIdentifierNoOp ==
    [][(IngestStep /\ NoIdentifier(probe'.entry)) =>
          /\ total_requests' = total_requests
          /\ DOMAIN stats' = DOMAIN stats
          /\ \A ip \in DOMAIN stats :
                /\ stats'[ip].request_count = stats[ip].request_count
                /\ stats'[ip].paths = stats[ip].paths]_vars

\* A record without identifier was given to a collector that holds requests.
C17_Witness ==
    /\ probe.op = "add_entry"
    /\ NoIdentifier(probe.entry)
    /\ total_requests >= 2
    /\ Cardinality(DOMAIN stats) = 2

\* C18: giving add_entry a record with identifier i and path p ("/" when the
\* record has none) creates the entry of i if absent, adds exactly 1 to its
\* request_count, to its count of p (from 0 if absent) and to total_requests,
\* and leaves every other entry and every other path count of i as they
\* were; no step removes an entry.
C18_IngestIncrements ==
    [][/\ DOMAIN stats \subseteq DOMAIN stats'
       /\ (IngestStep /\ ~NoIdentifier(probe'.entry)) =>
            LET i == IdentifierIn(probe'.entry)
                p == PathIn(probe'.entry)
                before == IF i \in DOMAIN stats THEN stats[i]
                          ELSE [request_count |-> 0, paths |-> <<>>]
            IN /\ DOMAIN stats' = DOMAIN stats \cup {i}
               /\ stats'[i].request_count = before.request_count + 1
               /\ DOMAIN stats'[i].paths = DOMAIN before.paths \cup {p}
               /\ stats'[i].paths[p]
                     = (IF p \in DOMAIN before.paths THEN before.paths[p] ELSE 0) + 1
               /\ \A q \in DOMAIN before.paths \ {p} :
                     stats'[i].paths[q] = before.paths[q]
               /\ \A j \in DOMAIN stats \ {i} : stats'[j] = stats[j]
               /\ total_requests' = total_requests + 1]_vars

\* The last record had no path and came from an address; it was counted
\* under "/" in an entry that already held another path.
C18_Witness ==
    /\ probe.op = "add_entry"
    /\ probe.entry.request_path = <<>>
    /\ ~HostGiven(probe.entry) /\ AddrGiven(probe.entry)
    /\ <<"2">> \in DOMAIN stats
    /\ DOMAIN stats[<<"2">>].paths = {"/", "/a"}
    /\ stats[<<"2">>].paths["/"] = 2
    /\ Cardinality(DOMAIN stats) = 2

\* The paths with which requests of identifier ip were ingested.
PathsOf(ip) == {k[2] : k \in {k \in DOMAIN ingested : k[1] = ip}}

\* C20: top_paths(n) on the entry of an identifier returns min(n, distinct
\* paths of the entry) pairs, each path once, ordered by non-increasing
\* count, each count the number of requests of the identifier ingested with
\* that path, no omitted path with a larger count than a returned one; the
\* collector is left as it was.
C20_TopPaths ==
    [][(probe'.op = "top_paths" /\ probe' /= probe) =>
          LET r == probe'.result
              ip == probe'.ip
              Returned == {r[i].path : i \in DOMAIN r}
          IN /\ Len(r) = Min(probe'.n, Cardinality(DOMAIN stats[ip].paths))
             /\ DOMAIN stats[ip].paths = PathsOf(ip)
             /\ \A i \in DOMAIN r :
                   /\ r[i].path \in PathsOf(ip)
                   /\ r[i].count = ingested[<<ip, r[i].path>>]
             /\ \A i, j \in DOMAIN r : i /= j => r[i].path /= r[j].path
             /\ \A i, j \in DOMAIN r : i < j => r[i].count >= r[j].count
             /\ \A q \in PathsOf(ip) \ Returned : \A i \in DOMAIN r :
                   ingested[<<ip, q>>] <= r[i].count
             /\ stats' = stats
             /\ total_requests' = total_requests]_vars

\* top_paths(2) on an entry with three paths counted 2, 1 and 1.
C20_Witness ==
    /\ probe.op = "top_paths"
    /\ probe.n = 2
    /\ Cardinality(DOMAIN stats[probe.ip].paths) = 3
    /\ Len(probe.result) = 2
    /\ probe.result[1].count = 2
    /\ probe.result[2].count = 1

----------------------------------------------------------------------------
(* Properties of the tail reader when the file shrinks *)

\* C19: a successful poll that finds the file shorter than position returns
\* nothing and leaves position where it was, and so does every later
\* successful poll for as long as the file has not grown past position.
C19_TruncatedFileIdle ==
    [][(PollStep /\ lastPoll'.ok) =>
          /\ Len(file) < position =>
                (lastPoll'.lines = <<>> /\ position' = position /\ returned' = returned)
          /\ (Len(file) = position /\ idle.count >= 1) =>
                (lastPoll'.lines = <<>> /\ position' = position /\ returned' = returned)]_vars

\* Two successful polls in a row found the file shorter than position, the
\* file having grown in between without reaching it.
C19_Witness ==
    /\ lastPoll.ok
    /\ lastPoll.lines = <<>>
    /\ idle.count = 2
    /\ idle.okSize > 0
    /\ Len(file) = idle.okSize
    /\ Len(file) < position
    /\ position > position0

----------------------------------------------------------------------------
(* Properties of the tail reader when polls fail *)

\* C21: retrying after a failed poll loses nothing: once a poll has
\* succeeded, the successful polls so far have returned, in file order and
\* each exactly once, every line that had been appended when it ran, the
\* lines read by an earlier failed poll included.
C21_RetryLosesNothing ==
    lastPoll.ok => returned = ExpectedLines(AppendedUpTo(lastPoll.size))

----------------------------------------------------------------------------
(* Invariants of the entries of the collector *)

\* C22: after any sequence of add_entry calls, the request_count of every
\* entry is the sum of its path counts, and every path count and every
\* request_count in the map is at least 1.
C22_EntryCountsAgree ==
    \A ip \in DOMAIN stats :
        /\ stats[ip].request_count = SumOver(stats[ip].paths, DOMAIN stats[ip].paths)
        /\ stats[ip].request_count >= 1
        /\ \A p \in DOMAIN stats[ip].paths : stats[ip].paths[p] >= 1

\* Two identifiers; one of them with three requests over two paths, 2 and 1.
C22_Witness ==
    /\ Cardinality(DOMAIN stats) = 2
    /\ \E ip \in DOMAIN stats :
          /\ stats[ip].request_count = 3
          /\ Cardinality(DOMAIN stats[ip].paths) = 2
          /\ \E p \in DOMAIN stats[ip].paths : stats[ip].paths[p] = 2

----------------------------------------------------------------------------
(* Properties of the path column *)

\* C23: truncate_path(path, max_len) returns the path unchanged when it has
\* at most max_len characters, and otherwise its first max_len - 3
\* characters followed by "..."; the result never has more than max_len
\* characters.
C23_TruncatePath ==
    probe.op = "truncate_path" =>
       /\ ~probe.panic
       /\ Len(probe.path) <= probe.max_len => probe.out = probe.path
       /\ Len(probe.path) > probe.max_len =>
             probe.out = SubSeq(probe.path, 1, probe.max_len - 3) \o <<".", ".", ".">>
       /\ Len(probe.out) <= probe.max_len

====
